---- MODULE Spec2Model ----
(***************************************************************************)
(* Model of src/utils/timer.py (class Timer): a recurring wall-clock timer *)
(* that is polled with due(), blocked on with wait(), and steered with     *)
(* restart() and trigger(); and of class ProgressTimer, which projects a   *)
(* completion time from a count.                                           *)
(*                                                                         *)
(* Spec is one caller using a Timer, LiveSpec adds a fair clock, SpecP is  *)
(* a ProgressTimer and its owner, SpecC is two threads sharing one Timer.  *)
(*                                                                         *)
(* Time is discrete, as datetime is: one unit of the model is one clock    *)
(* tick, TicksPerSec ticks make a second.  Timestamps and the float        *)
(* "seconds" results of elapsed()/remaining() are counted in ticks; the    *)
(* period is kept in whole seconds as the code keeps it.                   *)
(***************************************************************************)
EXTENDS Integers, Sequences, FiniteSets, TLC

\* ---- bounds of the model ------------------------------------------------
TicksPerSec == 1          \* clock resolution: ticks per second
MaxSec == 13              \* the clock is observed for this many seconds
MaxTicks == MaxSec * TicksPerSec
PeriodArgs == {-1, 0, 5, 201}   \* period arguments given to Timer(...)
OffsetArgs == {-1, 0, 3}           \* offset arguments given to Timer(...)
MaxAhead == 2             \* periods the timer may run ahead before a push is cut off
MaxCount == 3             \* counts 0..MaxCount are given to ProgressTimer.update_count
StartArgs == {0, 1}                \* start arguments given to ProgressTimer(...)
TargetArgs == {0, 1, 4}            \* target arguments given to ProgressTimer(...)
InitialArgs == {<<>>, <<0>>, <<2>>}  \* initial arguments: <<>> is None

VARIABLES
  now,            \* the system clock read by now_utc(), in ticks
  period,         \* self.period (seconds)
  next_trigger,   \* self.next_trigger (ticks)
  skip_events,    \* self.skip_events
  force_trigger,  \* self.force_trigger
  pc,             \* position of the caller: "idle", or inside wait(): "loop", "sleep"
  wake,           \* inside wait(): the instant the current event.wait(t) times out
  args,           \* the arguments the Timer was constructed with
  op,             \* the last state-changing call that completed ("init" after construction)
  ret,            \* its boolean result
  held,           \* TRUE while the clock has not advanced since that call completed
  pre,            \* next_trigger and force_trigger as the last call of any kind found
                  \* them (while the clock has not advanced since)
  run,            \* the run of consecutive due() calls made at the current instant
  obs,            \* the getter called last, at the current instant and since op; else "none"
  val,            \* its numeric result
  progress,       \* the fields of a ProgressTimer (SpecP)
  got,            \* the ProgressTimer getter called last at the current instant, and its outcome
  threads         \* two threads sharing the Timer (SpecC): pc is the poller's place
                  \* inside due(); late: a trigger() completed after the poller's last
                  \* firing decision and before its due() returned, and no due() has
                  \* tested the flag since; lost: the last due() returned false for it

vars == <<now, period, next_trigger, skip_events, force_trigger, pc, wake,
          args, op, ret, held, pre, run, obs, val, progress, got, threads>>

\* what a single caller of a Timer leaves alone
beside == <<progress, got, threads>>

timer == <<period, next_trigger, skip_events, force_trigger>>

\* the fields a call finds
found == [next_trigger |-> next_trigger, force_trigger |-> force_trigger]

\* nothing is remembered of the fields before the last call
NoPre == [next_trigger |-> 0, force_trigger |-> FALSE]

\* no run of due() calls is in progress
NoRun == [on |-> FALSE, T |-> 0, n |-> 0, forced |-> FALSE]

\* no ProgressTimer is in use
NoProgress == [start |-> 0, target |-> 0, current |-> 0, start_time |-> 0]

\* no ProgressTimer getter has been called at the current instant
NoGot == [call |-> "none", err |-> FALSE, val |-> [n |-> 0, d |-> 1]]

\* no thread is inside due()
NoThreads == [pc |-> "idle", late |-> FALSE, lost |-> FALSE]

\* ---- pure helpers ---------------------------------------------------------

\* timedelta(seconds=s) in ticks
timedelta(s) == s * TicksPerSec

\* int(n/d) for round(n/d, 0): the fraction is dropped
round_down(n, d) == n \div d

\* Python's round(n/d, 0) for d > 0: round half to even
round(n, d) ==
  LET q == n \div d
      r == n % d
  IN  IF 2 * r < d THEN q
      ELSE IF 2 * r > d THEN q + 1
      ELSE IF q % 2 = 0 THEN q ELSE q + 1

\* Timer.__init__ with the clamp off by one: a period of 0 is stored as given
Timer_clamp0(p, offset, skip, t) ==
  LET per == IF p < 0 THEN 1 ELSE p
  IN  [ period        |-> per,
        next_trigger  |-> IF offset = 0 THEN t + timedelta(per)
                                        ELSE t + timedelta(offset),
        skip_events   |-> skip,
        force_trigger |-> FALSE ]

\* Timer.__init__ that starts the countdown at now + offset in both branches
Timer_offset_only(p, offset, skip, t) ==
  LET per == IF p < 1 THEN 1 ELSE p
  IN  [ period        |-> per,
        next_trigger  |-> t + timedelta(offset),
        skip_events   |-> skip,
        force_trigger |-> FALSE ]

\* Timer.__init__: the fields of a Timer constructed at instant t
Timer(p, offset, skip, t) ==
  LET per == IF p < 1 THEN 1 ELSE p
  IN  [ period        |-> per,
        next_trigger  |-> IF offset = 0 THEN t + timedelta(per)
                                        ELSE t + timedelta(offset),
        skip_events   |-> skip,
        force_trigger |-> FALSE ]

\* the while loop with < for <=: it stops on reaching now
RECURSIVE skip_missed_lt(_, _, _)
skip_missed_lt(nt, p, t) ==
  IF nt < t THEN skip_missed_lt(nt + timedelta(p), p, t) ELSE nt

\* the while loop as a do-while: it adds a period before it tests
RECURSIVE skip_missed_do_while(_, _, _)
skip_missed_do_while(nt, p, t) ==
  LET later == nt + timedelta(p)
  IN  IF later <= t THEN skip_missed_do_while(later, p, t) ELSE later

\* the while loop of set_next_trigger (skip_events branch)
RECURSIVE skip_missed(_, _, _)
skip_missed(nt, p, t) ==
  IF nt <= t THEN skip_missed(nt + timedelta(p), p, t) ELSE nt

\* set_next_trigger that skips missed events whatever skip_events is
set_next_trigger_always_skip(nt, p, skip, t) ==
  skip_missed(nt, p, t)

\* set_next_trigger that resynchronises to now + period when skipping
set_next_trigger_resync(nt, p, skip, t) ==
  IF skip THEN (IF nt <= t THEN t + timedelta(p) ELSE nt)
          ELSE nt + timedelta(p)

\* Timer.set_next_trigger: the new next_trigger
set_next_trigger(nt, p, skip, t) ==
  IF skip THEN skip_missed(nt, p, t)
          ELSE nt + timedelta(p)

\* Timer.elapsed, in ticks
elapsed(nt, p, t) ==
  LET starttime == nt - timedelta(p)
  IN  t - starttime

\* Timer.elapsed_pc
elapsed_pc(nt, p, t) == round(100 * elapsed(nt, p, t), timedelta(p))

\* remaining() without the clamp at 0
remaining_unclamped(nt, t) == nt - t

\* Timer.remaining, in ticks
remaining(nt, t) ==
  LET result == nt - t
  IN  IF result < 0 THEN 0 ELSE result

\* the firing condition with "and" for "or"
is_due_and(nt, force, t) == nt < t /\ force

\* the firing condition with <= for <: it fires at the instant now = next_trigger
is_due_le(nt, force, t) == nt <= t \/ force

\* the firing condition of Timer.due
is_due(nt, force, t) == nt < t \/ force

\* ---- initial state: a Timer just constructed at t0 = 0 ---------------------

Init ==
  /\ now = 0
  /\ args \in [period : PeriodArgs, offset : OffsetArgs, skip : BOOLEAN]
  /\ LET self == Timer(args.period, args.offset, args.skip, now)
     IN  /\ period = self.period
         /\ next_trigger = self.next_trigger
         /\ skip_events = self.skip_events
         /\ force_trigger = self.force_trigger
  /\ pc = "idle"
  /\ wake = 0
  /\ op = "init"
  /\ ret = TRUE
  /\ held = TRUE
  /\ pre = NoPre
  /\ run = NoRun
  /\ obs = "none"
  /\ val = 0
  /\ progress = NoProgress
  /\ got = NoGot
  /\ threads = NoThreads

\* ---- the clock ------------------------------------------------------------

Tick ==
  /\ now < MaxTicks
  /\ now' = now + 1
  /\ held' = FALSE
  /\ pre' = NoPre
  /\ run' = NoRun
  /\ obs' = "none"
  /\ val' = 0
  /\ UNCHANGED <<timer, pc, wake, args, op, ret, beside>>

\* ---- calls on the Timer ---------------------------------------------------

\* bound: a firing with skip_events false pushes next_trigger one period on
\* without limit; it is followed while the timer is at most MaxAhead periods ahead
CanPush ==
  (is_due(next_trigger, force_trigger, now) /\ ~skip_events)
    => next_trigger - now <= MaxAhead * timedelta(period)

\* the run of consecutive due() calls after one more due() call with result
\* fired; any other call and any advance of the clock ends the run
run_after(fired) ==
  LET k == IF fired THEN 1 ELSE 0
  IN  IF run.on
        THEN [run EXCEPT !.n = @ + k]
        ELSE [on |-> TRUE, T |-> next_trigger, n |-> k, forced |-> force_trigger]

\* due() that treats a forced firing as an extra one: it leaves next_trigger alone
due_forced_extra ==
  /\ pc = "idle"
  /\ CanPush
  /\ IF force_trigger
       THEN /\ ret' = TRUE
            /\ force_trigger' = FALSE
            /\ run' = run_after(TRUE)
            /\ UNCHANGED next_trigger
       ELSE IF is_due(next_trigger, force_trigger, now)
       THEN /\ ret' = TRUE
            /\ next_trigger' = set_next_trigger(next_trigger, period, skip_events, now)
            /\ force_trigger' = FALSE
            /\ run' = run_after(TRUE)
       ELSE /\ ret' = FALSE
            /\ run' = run_after(FALSE)
            /\ UNCHANGED <<next_trigger, force_trigger>>
  /\ op' = "due"
  /\ held' = TRUE
  /\ pre' = found
  /\ obs' = "none"
  /\ val' = 0
  /\ UNCHANGED <<now, period, skip_events, pc, wake, args, beside>>

\* Timer.due()
due ==
  /\ pc = "idle"
  /\ CanPush
  /\ IF is_due(next_trigger, force_trigger, now)
       THEN /\ ret' = TRUE
            /\ next_trigger' = set_next_trigger(next_trigger, period, skip_events, now)
            /\ force_trigger' = FALSE
            /\ run' = run_after(TRUE)
       ELSE /\ ret' = FALSE
            /\ run' = run_after(FALSE)
            /\ UNCHANGED <<next_trigger, force_trigger>>
  /\ op' = "due"
  /\ held' = TRUE
  /\ pre' = found
  /\ obs' = "none"
  /\ val' = 0
  /\ UNCHANGED <<now, period, skip_events, pc, wake, args, beside>>

\* restart() that forgets to clear force_trigger
restart_keeps_force ==
  /\ pc = "idle"
  /\ next_trigger' = now + timedelta(period)
  /\ ret' = TRUE
  /\ op' = "restart"
  /\ held' = TRUE
  /\ pre' = found
  /\ run' = NoRun
  /\ obs' = "none"
  /\ val' = 0
  /\ UNCHANGED <<now, period, skip_events, force_trigger, pc, wake, args, beside>>

\* Timer.restart()
restart ==
  /\ pc = "idle"
  /\ next_trigger' = now + timedelta(period)
  /\ force_trigger' = FALSE
  /\ ret' = TRUE
  /\ op' = "restart"
  /\ held' = TRUE
  /\ pre' = found
  /\ run' = NoRun
  /\ obs' = "none"
  /\ val' = 0
  /\ UNCHANGED <<now, period, skip_events, pc, wake, args, beside>>

\* trigger() that also makes the timer due now
trigger_resets ==
  /\ pc = "idle"
  /\ force_trigger' = TRUE
  /\ next_trigger' = now
  /\ ret' = TRUE
  /\ op' = "trigger"
  /\ held' = TRUE
  /\ pre' = found
  /\ run' = NoRun
  /\ obs' = "none"
  /\ val' = 0
  /\ UNCHANGED <<now, period, skip_events, pc, wake, args, beside>>

\* Timer.trigger()
trigger ==
  /\ pc = "idle"
  /\ force_trigger' = TRUE
  /\ ret' = TRUE
  /\ op' = "trigger"
  /\ held' = TRUE
  /\ pre' = found
  /\ run' = NoRun
  /\ obs' = "none"
  /\ val' = 0
  /\ UNCHANGED <<now, period, next_trigger, skip_events, pc, wake, args, beside>>

\* a call of Timer.elapsed()
call_elapsed ==
  /\ pc = "idle"
  /\ val' = elapsed(next_trigger, period, now)
  /\ obs' = "elapsed"
  /\ pre' = found
  /\ run' = NoRun
  /\ UNCHANGED <<now, timer, pc, wake, args, op, ret, held, beside>>

\* a call of Timer.elapsed_pc()
call_elapsed_pc ==
  /\ pc = "idle"
  /\ val' = elapsed_pc(next_trigger, period, now)
  /\ obs' = "elapsed_pc"
  /\ pre' = found
  /\ run' = NoRun
  /\ UNCHANGED <<now, timer, pc, wake, args, op, ret, held, beside>>

\* a call of Timer.remaining()
call_remaining ==
  /\ pc = "idle"
  /\ val' = remaining(next_trigger, now)
  /\ obs' = "remaining"
  /\ pre' = found
  /\ run' = NoRun
  /\ UNCHANGED <<now, timer, pc, wake, args, op, ret, held, beside>>

\* wait() that returns as soon as remaining() is 0, without due() having fired
wait_loop_until_zero ==
  IF is_due(next_trigger, force_trigger, now)
    THEN /\ next_trigger' = set_next_trigger(next_trigger, period, skip_events, now)
         /\ force_trigger' = FALSE
         /\ pc' = "idle"
         /\ wake' = 0
         /\ op' = "wait"
         /\ ret' = TRUE
         /\ held' = TRUE
         /\ pre' = found
         /\ run' = NoRun
         /\ obs' = "none"
         /\ val' = 0
         /\ UNCHANGED <<now, period, skip_events, args, beside>>
    ELSE LET t == remaining(next_trigger, now)
         IN  IF t > 0
               THEN /\ pc' = "sleep"
                    /\ wake' = now + t
                    /\ pre' = found
                    /\ run' = NoRun
                    /\ obs' = "none"
                    /\ val' = 0
                    /\ UNCHANGED <<now, timer, args, op, ret, held, beside>>
               ELSE /\ pc' = "idle"
                    /\ wake' = 0
                    /\ op' = "wait"
                    /\ ret' = TRUE
                    /\ held' = TRUE
                    /\ pre' = found
                    /\ run' = NoRun
                    /\ obs' = "none"
                    /\ val' = 0
                    /\ UNCHANGED <<now, timer, args, beside>>

\* Timer.wait(): one pass of its loop, from the due() test to the point where
\* it returns, blocks in event.wait(t), or goes round again (t = 0)
wait_loop ==
  IF is_due(next_trigger, force_trigger, now)
    THEN /\ next_trigger' = set_next_trigger(next_trigger, period, skip_events, now)
         /\ force_trigger' = FALSE
         /\ pc' = "idle"
         /\ wake' = 0
         /\ op' = "wait"
         /\ ret' = TRUE
         /\ held' = TRUE
         /\ pre' = found
         /\ run' = NoRun
         /\ obs' = "none"
         /\ val' = 0
         /\ UNCHANGED <<now, period, skip_events, args, beside>>
    ELSE /\ LET t == remaining(next_trigger, now)
            IN  IF t > 0 THEN pc' = "sleep" /\ wake' = now + t
                         ELSE pc' = "loop" /\ wake' = 0
         /\ pre' = found
         /\ run' = NoRun
         /\ obs' = "none"
         /\ val' = 0
         /\ UNCHANGED <<now, timer, args, op, ret, held, beside>>

\* bound: wait() is entered only when the clock can still pass next_trigger
CanFire == force_trigger \/ next_trigger < MaxTicks

\* the caller enters Timer.wait()
wait ==
  /\ pc = "idle"
  /\ CanFire
  /\ CanPush
  /\ wait_loop

\* inside Timer.wait(): event.wait(t) has timed out, or the loop spins (t = 0)
wait_resume ==
  /\ \/ pc = "loop"
     \/ pc = "sleep" /\ now >= wake
  /\ wait_loop

Next ==
  \/ Tick
  \/ due
  \/ restart
  \/ trigger
  \/ call_elapsed
  \/ call_elapsed_pc
  \/ call_remaining
  \/ wait
  \/ wait_resume

Spec == Init /\ [][Next]_vars

\* the clock keeps advancing (within the horizon) and a caller inside wait()
\* keeps running
LiveSpec == Spec /\ WF_vars(Tick) /\ WF_vars(wait_resume)

\* ---- ProgressTimer ----------------------------------------------------------

\* what the owner of a ProgressTimer leaves alone: the Timer and its caller
timer_side == <<period, next_trigger, skip_events, force_trigger, pc, wake,
                args, op, ret, held, pre, run, obs, val, threads>>

RECURSIVE gcd(_, _)
gcd(a, b) == IF b = 0 THEN a ELSE gcd(b, a % b)

\* the number n/d (d # 0) in lowest terms with a positive denominator: a float
frac(n, d) ==
  LET a == IF n < 0 THEN 0 - n ELSE n
      b == IF d < 0 THEN 0 - d ELSE d
      g == gcd(a, b)
      sgn == IF d < 0 THEN 0 - 1 ELSE 1
  IN  [n |-> (sgn * n) \div g, d |-> b \div g]

\* a call returns x
returns(x) == [err |-> FALSE, val |-> x]

\* a call fails with ZeroDivisionError
ZeroDivisionError == [err |-> TRUE, val |-> [n |-> 0, d |-> 1]]

\* x / y on floats
divide(x, y) ==
  IF y.n = 0 THEN ZeroDivisionError
  ELSE returns(frac(x.n * y.d, x.d * y.n))

\* ProgressTimer.__init__ at instant t; initial is <<>> for None
ProgressTimer(target, start, initial, t) ==
  [ start      |-> start,
    current    |-> IF initial # <<>> THEN initial[1] ELSE start,
    target     |-> target,
    start_time |-> t ]

\* get_percent() that answers 0 for an empty range instead of dividing
get_percent_guarded(self) ==
  IF self.target = self.start THEN returns(frac(0, 1))
  ELSE divide(frac(100 * (self.current - self.start), 1),
              frac(self.target - self.start, 1))

\* ProgressTimer.get_percent
get_percent(self) ==
  divide(frac(100 * (self.current - self.start), 1),
         frac(self.target - self.start, 1))

\* get_total_seconds() without the test for "no progress yet"
get_total_seconds_untested(self, t) ==
  LET pct == get_percent(self)
  IN  IF pct.err THEN ZeroDivisionError
      ELSE divide(frac((t - self.start_time) * 100, 1), pct.val)

\* ProgressTimer.get_total_seconds at instant t, in ticks
get_total_seconds(self, t) ==
  LET temp == self.current - self.start
  IN  IF temp # 0
        THEN LET pct == get_percent(self)
             IN  IF pct.err THEN ZeroDivisionError
                 ELSE divide(frac((t - self.start_time) * 100, 1), pct.val)
        ELSE returns(frac(0, 1))

\* timedelta(seconds=x) for a float x: rounded to the clock's resolution
timedelta_of(x) == round(x.n, x.d)

\* ProgressTimer.get_eta at instant t
get_eta(self, t) ==
  LET temp == get_total_seconds(self, t)
  IN  IF temp.err THEN ZeroDivisionError
      ELSE IF temp.val.n # 0
        THEN returns(frac(self.start_time + timedelta_of(temp.val), 1))
        ELSE returns(frac(self.start_time, 1))

\* a ProgressTimer just constructed at t0 = 0, beside a Timer nobody uses
InitP ==
  /\ now = 0
  /\ args = [period |-> 5, offset |-> 0, skip |-> TRUE]
  /\ LET self == Timer(args.period, args.offset, args.skip, now)
     IN  /\ period = self.period
         /\ next_trigger = self.next_trigger
         /\ skip_events = self.skip_events
         /\ force_trigger = self.force_trigger
  /\ pc = "idle"
  /\ wake = 0
  /\ op = "init"
  /\ ret = TRUE
  /\ held = TRUE
  /\ pre = NoPre
  /\ run = NoRun
  /\ obs = "none"
  /\ val = 0
  /\ \E target \in TargetArgs, start \in StartArgs, initial \in InitialArgs :
       progress = ProgressTimer(target, start, initial, now)
  /\ got = NoGot
  /\ threads = NoThreads

\* the clock, for the owner of a ProgressTimer
TickP ==
  /\ now < MaxTicks
  /\ now' = now + 1
  /\ got' = NoGot
  /\ UNCHANGED <<progress, timer_side>>

\* ProgressTimer.update_count(count)
update_count ==
  \E count \in 0..MaxCount :
    /\ progress' = [progress EXCEPT !.current = count]
    /\ got' = NoGot
    /\ UNCHANGED <<now, timer_side>>

\* a call of ProgressTimer.get_percent()
call_get_percent ==
  /\ got' = [call |-> "get_percent"] @@ get_percent(progress)
  /\ UNCHANGED <<now, progress, timer_side>>

\* a call of ProgressTimer.get_total_seconds()
call_get_total_seconds ==
  /\ got' = [call |-> "get_total_seconds"] @@ get_total_seconds(progress, now)
  /\ UNCHANGED <<now, progress, timer_side>>

\* a call of ProgressTimer.get_eta()
call_get_eta ==
  /\ got' = [call |-> "get_eta"] @@ get_eta(progress, now)
  /\ UNCHANGED <<now, progress, timer_side>>

NextP ==
  \/ TickP
  \/ update_count
  \/ call_get_percent
  \/ call_get_total_seconds
  \/ call_get_eta

SpecP == InitP /\ [][NextP]_vars

\* ---- two threads on one Timer ------------------------------------------------
\* One thread polls due(), the other calls trigger(); nothing synchronizes
\* them, so a thread switch can fall between any two statements of due().

\* what the two threads leave alone
single_side == <<pc, wake, args, held, pre, run, obs, val, progress, got>>

\* the poller enters due() and takes the firing decision (the if of due)
poll_test ==
  /\ threads.pc = "idle"
  /\ CanPush
  /\ IF is_due(next_trigger, force_trigger, now)
       THEN /\ threads' = [pc |-> "advance", late |-> FALSE, lost |-> FALSE]
            /\ UNCHANGED <<op, ret>>
       ELSE /\ threads' = [pc |-> "idle", late |-> FALSE, lost |-> threads.late]
            /\ op' = "due"
            /\ ret' = FALSE
  /\ UNCHANGED <<now, timer, single_side>>

\* the poller, inside set_next_trigger, moves next_trigger on
poll_advance ==
  /\ threads.pc = "advance"
  /\ next_trigger' = set_next_trigger(next_trigger, period, skip_events, now)
  /\ threads' = [threads EXCEPT !.pc = "clear"]
  /\ UNCHANGED <<now, period, skip_events, force_trigger, op, ret, single_side>>

\* set_next_trigger's last statement with the assignment left out
poll_clear_forgotten ==
  /\ threads.pc = "clear"
  /\ threads' = [threads EXCEPT !.pc = "idle"]
  /\ op' = "due"
  /\ ret' = TRUE
  /\ UNCHANGED <<now, timer, single_side>>

\* the poller clears force_trigger, leaves set_next_trigger, and due() returns True
poll_clear ==
  /\ threads.pc = "clear"
  /\ force_trigger' = FALSE
  /\ threads' = [threads EXCEPT !.pc = "idle"]
  /\ op' = "due"
  /\ ret' = TRUE
  /\ UNCHANGED <<now, period, next_trigger, skip_events, single_side>>

\* the other thread calls trigger()
force ==
  /\ force_trigger' = TRUE
  /\ threads' = [threads EXCEPT !.late = (threads.pc # "idle"), !.lost = FALSE]
  /\ UNCHANGED <<now, period, next_trigger, skip_events, op, ret, single_side>>

NextC ==
  \/ Tick
  \/ poll_test
  \/ poll_advance
  \/ poll_clear
  \/ force

SpecC == Init /\ [][NextC]_vars

\* ---- properties ---------------------------------------------------------------

TypeOK ==
  /\ now \in 0..MaxTicks
  /\ period \in Nat
  /\ next_trigger \in Int
  /\ skip_events \in BOOLEAN
  /\ force_trigger \in BOOLEAN
  /\ pc \in {"idle", "loop", "sleep"}
  /\ wake \in 0..MaxTicks
  /\ op \in {"init", "due", "restart", "trigger", "wait"}
  /\ ret \in BOOLEAN
  /\ held \in BOOLEAN
  /\ obs \in {"none", "elapsed", "elapsed_pc", "remaining"}
  /\ val \in Int
  /\ threads \in [pc : {"idle", "advance", "clear"}, late : BOOLEAN, lost : BOOLEAN]

\* the period in ticks
P == timedelta(period)

\* the instant the Timer was constructed
t0 == 0

\* the absolute value of an integer
Abs(x) == IF x < 0 THEN 0 - x ELSE x

\* the number of integers n >= 0 with T + n*period < t
Missed(T, t) == Cardinality({n \in 0..MaxTicks : T + n * P < t})

\* C1: with skip false and no forced trigger, a run of due() calls at one held
\* instant, started with next_trigger = T, has fired once per n >= 0 with
\* T + n*period < now when a call returns false, never more than that, and
\* each firing has added exactly one period to next_trigger.
C1_ReplayEveryMissed ==
  (run.on /\ ~skip_events /\ ~run.forced) =>
    /\ next_trigger = run.T + run.n * P
    /\ run.n <= Missed(run.T, now)
    /\ (~ret => run.n = Missed(run.T, now))

\* a run has replayed two or more missed intervals and then returned false
C1_Witness ==
  /\ run.on /\ ~skip_events /\ ~run.forced
  /\ ~ret
  /\ run.n >= 2

\* C2: with skip true, a due() that returns true leaves next_trigger strictly
\* after now, and a run of due() calls at one instant fires at most once.
C2_SkipCollapses ==
  (run.on /\ skip_events) =>
    /\ (ret => next_trigger > now)
    /\ run.n <= 1

\* two or more periods had elapsed, the first due() fired and the second did not
C2_Witness ==
  /\ run.on /\ skip_events
  /\ ~ret
  /\ run.n = 1
  /\ ~run.forced
  /\ now - run.T >= 2 * P

\* the first due() of Timer(5, skip=True), made 12 seconds after construction
C3_FirstPoll ==
  /\ op = "init" /\ op' = "due"
  /\ args.period = 5 /\ args.offset = 0 /\ args.skip
  /\ now = t0 + timedelta(12)

\* C3 as claimed: that first due() returns true and resets next_trigger to
\* now + 5 (t0 + 17).
C3_ResetsToNowPlusPeriod ==
  [][C3_FirstPoll => (ret' /\ next_trigger' = now + timedelta(5))]_vars

\* C3 amended: that first due() returns true and moves next_trigger in whole
\* periods to t0 + 15, the first t0 + 5k after now (now + 3).
C3_KeepsPhase ==
  [][C3_FirstPoll => (ret' /\ next_trigger' = t0 + timedelta(15))]_vars

\* Timer(5, skip=True) polled at t0 + 12 has fired once, from t0 + 5 to t0 + 15
C3_Witness ==
  /\ run.on /\ ret
  /\ args.period = 5 /\ args.offset = 0 /\ args.skip
  /\ now = t0 + timedelta(12)
  /\ pre.next_trigger = t0 + timedelta(5) /\ ~pre.force_trigger
  /\ next_trigger = t0 + timedelta(15)

\* C4: a due() that follows trigger() returns true.
C4_TriggerThenDue ==
  [][(op = "trigger" /\ op' = "due") => ret']_vars

\* a forced due() has fired while next_trigger was still in the future
C4_Witness ==
  /\ run.on /\ ret
  /\ pre.force_trigger
  /\ pre.next_trigger > now

\* C5: restart() sets next_trigger to now + period, clears force_trigger and
\* returns true; remaining() at the same instant is the period, and due() at
\* the same instant returns false.
C5_Restart ==
  /\ []((op = "restart" /\ held) =>
          /\ ret
          /\ next_trigger = now + P
          /\ ~force_trigger
          /\ (obs = "remaining" => val = P))
  /\ [][(op = "restart" /\ held /\ op' = "due") => ~ret']_vars

\* restart() has met a backlog of two periods and a pending forced trigger
C5_Witness ==
  /\ op = "restart" /\ held
  /\ obs = "none"
  /\ pre.force_trigger
  /\ pre.next_trigger + 2 * P < now
  /\ next_trigger = now + P

\* the instant of the first firing of the Timer as constructed
first_trigger ==
  IF args.offset = 0 THEN t0 + P ELSE t0 + timedelta(args.offset)

\* C6: the first due() after construction, made before offset seconds (period
\* seconds when offset is 0) have elapsed, returns false.
C6_NotDueBeforeFirst ==
  [][(op = "init" /\ op' = "due" /\ now < first_trigger) => ~ret']_vars

\* due() has returned false on the Timer as constructed, after the clock moved
C6_Witness ==
  /\ run.on /\ ~ret
  /\ pre.next_trigger = first_trigger /\ ~pre.force_trigger
  /\ t0 < now /\ now < first_trigger
  /\ args.offset > 0

\* C7: wait() returns true, only from a pass of its loop in which due() is
\* true, and with force_trigger false; and a caller inside wait() leaves it.
C7_Wait ==
  /\ [][((wait \/ wait_resume) /\ pc' = "idle") =>
          /\ is_due(next_trigger, force_trigger, now)
          /\ op' = "wait" /\ ret'
          /\ ~force_trigger']_vars
  /\ (pc # "idle") ~> (pc = "idle" /\ op = "wait" /\ ret)

\* wait() spins at the instant now = next_trigger: due() is false, remaining() is 0
C7_Witness ==
  /\ pc = "loop"
  /\ now = next_trigger
  /\ ~force_trigger
  /\ remaining(next_trigger, now) = 0

\* C8: period >= 1; it is the constructor's argument, or 1 for an argument
\* below 1; no operation changes period or skip_events.
C8_PeriodClamped ==
  /\ period >= 1
  /\ period = (IF args.period < 1 THEN 1 ELSE args.period)
  /\ skip_events = args.skip

\* a Timer built with a negative period has been used
C8_Witness ==
  /\ args.period < 0
  /\ period = 1
  /\ op = "wait"
  /\ obs = "elapsed_pc"

\* C9: remaining() returns next_trigger - now when that is >= 0 and 0
\* otherwise, never a negative value, and changes no field of the Timer.
C9_Remaining ==
  /\ [](obs = "remaining" =>
          /\ val >= 0
          /\ val = (IF next_trigger - now >= 0 THEN next_trigger - now ELSE 0))
  /\ [][obs' = "remaining" => timer' = timer]_vars

\* remaining() was read on an overdue Timer and returned 0
C9_Witness ==
  /\ obs = "remaining"
  /\ next_trigger < now
  /\ val = 0

\* C10 as claimed: elapsed_pc() is 100 exactly when now = next_trigger.
C10_HundredOnlyAtTrigger ==
  obs = "elapsed_pc" => (val = 100 <=> now = next_trigger)

\* C10 amended: elapsed_pc() is 100 at now = next_trigger and at every instant
\* less than period/200 seconds from it, and is not 100 at any instant more
\* than period/200 seconds from it.
C10_HundredNearTrigger ==
  obs = "elapsed_pc" =>
    /\ (200 * Abs(now - next_trigger) < P => val = 100)
    /\ (val = 100 => 200 * Abs(now - next_trigger) <= P)

\* elapsed_pc() has returned 100 at an instant other than next_trigger
C10_Witness ==
  /\ obs = "elapsed_pc"
  /\ val = 100
  /\ now # next_trigger

\* C11 as claimed: with target = start, get_percent() and get_total_seconds()
\* fail with a division by zero whatever current is.
C11_BothAlwaysFail ==
  (progress.target = progress.start
     /\ got.call \in {"get_percent", "get_total_seconds"}) => got.err

\* C11 amended: with target = start, get_percent() fails with a division by
\* zero whatever current is; get_total_seconds() fails so exactly when
\* current # start, and returns 0 when current = start; no getter changes a
\* field, failing or not.
C11_FailUnlessNoProgress ==
  /\ [](progress.target = progress.start =>
          /\ (got.call = "get_percent" => got.err)
          /\ (got.call = "get_total_seconds" =>
                /\ got.err <=> progress.current # progress.start
                /\ ~got.err => got.val.n = 0))
  /\ [][got'.call # "none" => progress' = progress]_vars

\* get_total_seconds() has failed on a ProgressTimer with target = start
C11_Witness ==
  /\ progress.target = progress.start
  /\ progress.current # progress.start
  /\ got.call = "get_total_seconds"
  /\ got.err

\* C12: get_total_seconds() returns 0 when current = start; get_eta() fails
\* when get_total_seconds() fails, and else returns start_time when
\* get_total_seconds() is 0 and start_time + get_total_seconds() (as a
\* timestamp) otherwise; start_time, start and target never change.
C12_TotalAndEta ==
  /\ []((got.call = "get_total_seconds" /\ progress.current = progress.start) =>
          (~got.err /\ got.val.n = 0))
  /\ [](got.call = "get_eta" =>
          LET total == get_total_seconds(progress, now)
          IN  IF total.err THEN got.err
              ELSE /\ ~got.err
                   /\ got.val.d = 1
                   /\ got.val.n = (IF total.val.n = 0
                                     THEN progress.start_time
                                     ELSE progress.start_time + timedelta_of(total.val)))
  /\ [][/\ progress'.start_time = progress.start_time
        /\ progress'.start = progress.start
        /\ progress'.target = progress.target]_vars

\* get_total_seconds() has returned 0 for current = start at a later instant
\* than start_time
C12_Witness ==
  /\ got.call = "get_total_seconds"
  /\ progress.current = progress.start
  /\ progress.target # progress.start
  /\ now > progress.start_time
  /\ ~got.err
  /\ got.val.n = 0

\* C13: due() returns true exactly when next_trigger < now or force_trigger
\* is set, as the call finds them; a due() that returns false changes no field.
C13_DueIffPastOrForced ==
  run.on =>
    /\ ret <=> (pre.next_trigger < now \/ pre.force_trigger)
    /\ ~ret => /\ next_trigger = pre.next_trigger
               /\ force_trigger = pre.force_trigger
               /\ period = (IF args.period < 1 THEN 1 ELSE args.period)
               /\ skip_events = args.skip

\* due() has returned false at the instant now = next_trigger
C13_Witness ==
  /\ run.on
  /\ ~ret
  /\ now = next_trigger
  /\ ~force_trigger

\* C14: force_trigger is set exactly when trigger() is the last state-changing
\* call (none of due() returning true, restart(), wait() came after it);
\* trigger() leaves next_trigger as it found it, and a due() that returns
\* false leaves force_trigger as it found it.
C14_ForceIffTriggered ==
  /\ force_trigger <=> op = "trigger"
  /\ (op = "trigger" /\ held) => next_trigger = pre.next_trigger
  /\ (run.on /\ ~ret) => force_trigger = pre.force_trigger

\* trigger() has set the flag on an overdue Timer, and time has passed since
C14_Witness ==
  /\ op = "trigger"
  /\ force_trigger
  /\ ~held
  /\ next_trigger < now

\* the first due() of Timer(5, skip=False), made 12 seconds after construction
C15_FirstPoll ==
  /\ op = "init" /\ op' = "due"
  /\ args.period = 5 /\ args.offset = 0 /\ ~args.skip
  /\ now = t0 + timedelta(12)

\* the state that first due() leaves when it has fired
C15_AfterFirst ==
  /\ run.on /\ run.n = 1 /\ ret /\ ~run.forced
  /\ run.T = t0 + timedelta(5)
  /\ args.period = 5 /\ args.offset = 0 /\ ~args.skip
  /\ now = t0 + timedelta(12)

\* C15 as claimed: that first due() returns true and advances next_trigger by
\* 5 seconds, leaving it 7 seconds in the past; a second due() at once
\* returns true.
C15_SevenSecondsBehind ==
  /\ [][C15_FirstPoll =>
          /\ ret'
          /\ next_trigger' = next_trigger + timedelta(5)
          /\ now - next_trigger' = timedelta(7)]_vars
  /\ [][(C15_AfterFirst /\ run'.on) => ret']_vars

\* C15 amended: that first due() returns true and advances next_trigger by
\* 5 seconds to t0 + 10, leaving it 2 seconds in the past (it was 7 seconds in
\* the past before the call); a second due() at once returns true.
C15_TwoSecondsBehind ==
  /\ [][C15_FirstPoll =>
          /\ ret'
          /\ now - next_trigger = timedelta(7)
          /\ next_trigger' = next_trigger + timedelta(5)
          /\ now - next_trigger' = timedelta(2)]_vars
  /\ [][(C15_AfterFirst /\ run'.on) => ret']_vars

\* Timer(5, skip=False) polled twice at t0 + 12 has fired twice
C15_Witness ==
  /\ run.on /\ run.n = 2 /\ ret /\ ~run.forced
  /\ run.T = t0 + timedelta(5)
  /\ args.period = 5 /\ args.offset = 0 /\ ~args.skip
  /\ now = t0 + timedelta(12)
  /\ next_trigger = t0 + timedelta(15)

\* the smallest T + n*period (n >= 1) that is later than t, for T <= t
NextAfter(T, t) == T + P * Cardinality({n \in 0..(2 * MaxTicks) : T + n * P <= t})

\* C17: with skip true, a due() that returns true and found next_trigger = T
\* at or before now leaves next_trigger at the smallest T + n*period later
\* than now, so now < next_trigger <= now + period; no call but restart()
\* moves next_trigger by anything but a whole number of periods.
C17_PhaseKept ==
  /\ []((run.on /\ ret /\ skip_events /\ pre.next_trigger <= now) =>
          /\ next_trigger = NextAfter(pre.next_trigger, now)
          /\ (next_trigger - pre.next_trigger) % P = 0
          /\ now < next_trigger
          /\ next_trigger <= now + P)
  /\ [][(skip_events /\ op' # "restart") =>
          (next_trigger' - next_trigger) % P = 0]_vars

\* a due() has skipped two or more periods and landed off now + period
C17_Witness ==
  /\ run.on /\ ret /\ skip_events
  /\ pre.next_trigger <= now
  /\ next_trigger - pre.next_trigger >= 2 * P
  /\ next_trigger < now + P

\* C18: a forced due() that finds next_trigger still in the future leaves it
\* unchanged with skip true and moves it on by one period with skip false.
C18_ForcedEarly ==
  (run.on /\ ret /\ pre.force_trigger /\ now < pre.next_trigger) =>
    next_trigger = pre.next_trigger + (IF skip_events THEN 0 ELSE P)

\* with skip false, forced firings at one instant have pushed next_trigger
\* three periods ahead: remaining() exceeds the period
C18_Witness ==
  /\ run.on /\ ret /\ pre.force_trigger /\ now < pre.next_trigger
  /\ ~skip_events
  /\ next_trigger - now >= 3 * P
  /\ remaining(next_trigger, now) > P

\* C19: a second trigger() changes nothing; a run of due() calls that starts
\* with the flag set fires exactly once when the timer is not overdue, and
\* when it is overdue fires as often, and leaves next_trigger where, it would
\* have without the flag.
C19_ForcedOnce ==
  /\ []((run.on /\ run.forced) =>
          IF run.T < now
            THEN IF skip_events
                   THEN /\ run.n = 1
                        /\ next_trigger = NextAfter(run.T, now)
                   ELSE /\ next_trigger = run.T + run.n * P
                        /\ run.n <= Missed(run.T, now)
                        /\ (~ret => run.n = Missed(run.T, now))
            ELSE run.n = 1)
  /\ [][(op = "trigger" /\ op' = "trigger") => timer' = timer]_vars

\* trigger() was called on a Timer two periods overdue, skip false, and the
\* due() calls that followed have replayed the missed intervals and stopped
C19_Witness ==
  /\ run.on /\ run.forced
  /\ ~skip_events
  /\ run.T + P < now
  /\ ~ret
  /\ run.n = Missed(run.T, now)

\* C16: a trigger() that completes after the poller's due() has taken its
\* firing decision and before that due() clears force_trigger is lost: the
\* flag is clear when that due() has returned, and the next due(), made before
\* next_trigger has passed, returns false.
C16_LateTriggerLost ==
  /\ []((threads.late /\ threads.pc = "idle") => ~force_trigger)
  /\ [][(poll_test /\ threads.late /\ now <= next_trigger) =>
          (threads'.lost /\ threads'.pc = "idle" /\ op' = "due" /\ ~ret')]_vars

\* a due() has returned false although trigger() completed after the firing
\* decision of the due() before it
C16_Witness ==
  /\ threads.lost
  /\ threads.pc = "idle"
  /\ op = "due" /\ ~ret
  /\ ~force_trigger
  /\ now <= next_trigger
====
